---------------------------- MODULE Spec2Model ----------------------------
(***************************************************************************)
(* Model of the in-process publish/subscribe dispatcher of pubsub.go.      *)
(*                                                                         *)
(* The registry (type pubsub) is a map from topic names to topics; a topic *)
(* is a record of its name, its ordered handler slice and the three flags  *)
(* once, onceEach and closed.  Every exported method is one action that    *)
(* runs the whole method.  A handler is a callback value of type           *)
(* func(...any): it has no result, so the only way it can fail is to       *)
(* panic, and no method of the package recovers a panic.                   *)
(*                                                                         *)
(* The variables last, calls and ret observe the most recent call: which   *)
(* method ran and on what, the handler invocations it made (in order) and  *)
(* how it ended.  tornDown and swept remember facts about earlier calls    *)
(* that the registry itself does not keep.                                 *)
(*                                                                         *)
(* Spec runs the methods one after another, each as a whole.  SpecRace     *)
(* runs two callers against one registry with no synchronization, as the   *)
(* code has none, one step per registry statement and loop iteration.      *)
(***************************************************************************)
EXTENDS Integers, Sequences, FiniteSets, TLC

VARIABLES topics, last, calls, ret, tornDown, swept

\* The registry as concurrent callers see it (specification SpecRace): reg is
\* the topics map holding topic pointers, heap the topic objects the
\* pointers refer to, procs each caller's position in the method it runs.
VARIABLES reg, heap, procs

seqVars == <<topics, last, calls, ret, tornDown, swept>>

raceVars == <<reg, heap, procs>>

vars == <<topics, last, calls, ret, tornDown, swept, reg, heap, procs>>

----------------------------------------------------------------------------
(* Inputs *)

\* Topic names the callers use.
TopicNames == {"A", "B"}

\* Callback values.  h1 and h2 return normally; hbad panics when invoked.
Handlers == {"h1", "h2", "hbad"}

FailingHandlers == {"hbad"}

\* Variadic argument lists passed to Publish / TryPublish.
ArgLists == { <<"x">>, <<"y", "x">> }

\* Bound on the number of handlers registered in the whole registry.
MaxHandlers == 3

Panics(handler) == handler \in FailingHandlers

----------------------------------------------------------------------------
(* type topic *)

newTopic(name) ==
    [name |-> name, handlers |-> <<>>, once |-> FALSE, onceEach |-> FALSE,
     closed |-> FALSE]

\* Variant: the new handler is put in front of the earlier ones.
topic_subscribe_prepend(t, handler, once, onceEach) ==
    IF t.closed
    THEN [t |-> t, err |-> "nil"]
    ELSE [t |-> [t EXCEPT !.handlers = <<handler>> \o t.handlers,
                          !.once = once,
                          !.onceEach = onceEach],
          err |-> "nil"]

\* Variant: the closed test is missing.
topic_subscribe_noClosedTest(t, handler, once, onceEach) ==
    [t |-> [t EXCEPT !.handlers = Append(t.handlers, handler),
                     !.once = once,
                     !.onceEach = onceEach],
     err |-> "nil"]

\* Variant: a one-shot mode, once set, is kept by later subscriptions.
topic_subscribe_stickyOnce(t, handler, once, onceEach) ==
    IF t.closed
    THEN [t |-> t, err |-> "nil"]
    ELSE [t |-> [t EXCEPT !.handlers = Append(t.handlers, handler),
                          !.once = t.once \/ once,
                          !.onceEach = t.onceEach \/ onceEach],
          err |-> "nil"]

\* Each topic method yields the topic after the call and the returned error.
topic_subscribe(t, handler, once, onceEach) ==
    IF t.closed
    THEN [t |-> t, err |-> "nil"]
    ELSE [t |-> [t EXCEPT !.handlers = Append(t.handlers, handler),
                          !.once = once,
                          !.onceEach = onceEach],
          err |-> "nil"]

\* Variant: clears the handlers and leaves the topic open.
topic_unsubscribe_staysOpen(t) ==
    IF t.closed
    THEN [t |-> t, err |-> "nil"]
    ELSE [t |-> [t EXCEPT !.handlers = <<>>], err |-> "nil"]

topic_unsubscribe(t) ==
    IF t.closed
    THEN [t |-> t, err |-> "nil"]
    ELSE [t |-> [t EXCEPT !.handlers = <<>>, !.closed = TRUE], err |-> "nil"]

\* Variant: closing a closed topic is reported as an error.
topic_close_errClosed(t) ==
    IF t.closed
    THEN [t |-> t, err |-> "closed"]
    ELSE [t |-> [t EXCEPT !.handlers = <<>>, !.closed = TRUE], err |-> "nil"]

topic_close(t) ==
    IF t.closed
    THEN [t |-> t, err |-> "nil"]
    ELSE [t |-> [t EXCEPT !.handlers = <<>>, !.closed = TRUE], err |-> "nil"]

\* Variant: the handler is called without the published arguments.
Invoke_noArgs(handler, args) == [h |-> handler, args |-> <<>>]

\* One handler call: the entry appended to the invocation log.
Invoke(handler, args) == [h |-> handler, args |-> args]

\* The body of the range loop of topic.publish.  hs is the slice the range
\* expression was evaluated to when the loop started; assigning t.handlers
\* inside the loop does not change what the loop iterates over.  A panicking
\* handler unwinds the call before the once / onceEach tests of that
\* iteration run.  "handler = nil" assigns the loop variable only.
RECURSIVE publishLoop(_, _, _, _, _)
publishLoop(t, hs, i, args, log) ==
    IF i > Len(hs)
    THEN [t |-> t, calls |-> log, ret |-> "nil"]
    ELSE LET log1 == Append(log, Invoke(hs[i], args))
         IN  IF Panics(hs[i])
             THEN [t |-> t, calls |-> log1, ret |-> "panic"]
             ELSE LET t1 == IF t.once THEN [t EXCEPT !.handlers = <<>>] ELSE t
                      t2 == IF t1.onceEach THEN t1 ELSE t1
                  IN  publishLoop(t2, hs, i + 1, args, log1)

\* Variant: a one-shot publish also closes the topic.
topic_publish_closesOnce(t, args, try) ==
    IF t.closed
    THEN [t |-> t, calls |-> <<>>, ret |-> "nil"]
    ELSE LET r == publishLoop(t, t.handlers, 1, args, <<>>)
         IN  IF t.once /\ r.ret = "nil"
             THEN [r EXCEPT !.t.closed = TRUE]
             ELSE r

\* Variant: with try set, a handler's failure is returned as an error.
topic_publish_tryReturnsError(t, args, try) ==
    IF t.closed
    THEN [t |-> t, calls |-> <<>>, ret |-> "nil"]
    ELSE LET r == publishLoop(t, t.handlers, 1, args, <<>>)
         IN  IF try /\ r.ret = "panic"
             THEN [r EXCEPT !.ret = "error"]
             ELSE r

\* The try flag is accepted and never read.
topic_publish(t, args, try) ==
    IF t.closed
    THEN [t |-> t, calls |-> <<>>, ret |-> "nil"]
    ELSE publishLoop(t, t.handlers, 1, args, <<>>)

----------------------------------------------------------------------------
(* type pubsub: p is the topics map.  Each method yields the map after the *)
(* call, the handler invocations made and the way the call ended ("nil":   *)
(* returned a nil error; "panic": a handler's panic unwound the call).     *)

New == << >>

\* Variant: a closed topic is replaced by a fresh one.
pubsub_subscribe_revive(p, topic, handler, once, onceEach) ==
    LET p1 == IF topic \in DOMAIN p /\ ~p[topic].closed
              THEN p
              ELSE [n \in DOMAIN p \cup {topic} |->
                      IF n = topic THEN newTopic(topic) ELSE p[n]]
        r  == topic_subscribe(p1[topic], handler, once, onceEach)
    IN  [topics |-> [p1 EXCEPT ![topic] = r.t], calls |-> <<>>, ret |-> r.err]

pubsub_subscribe(p, topic, handler, once, onceEach) ==
    LET p1 == IF topic \in DOMAIN p THEN p ELSE p @@ (topic :> newTopic(topic))
        r  == topic_subscribe(p1[topic], handler, once, onceEach)
    IN  [topics |-> [p1 EXCEPT ![topic] = r.t], calls |-> <<>>, ret |-> r.err]

pubsub_Subscribe(p, topic, handler) ==
    pubsub_subscribe(p, topic, handler, FALSE, FALSE)

\* Variant: the once flag is not passed on.
pubsub_SubscribeOnce_persistent(p, topic, handler) ==
    pubsub_subscribe(p, topic, handler, FALSE, FALSE)

pubsub_SubscribeOnce(p, topic, handler) ==
    pubsub_subscribe(p, topic, handler, TRUE, FALSE)

\* Variant: only the onceEach flag is set.
pubsub_SubscribeOnceEach_eachOnly(p, topic, handler) ==
    pubsub_subscribe(p, topic, handler, FALSE, TRUE)

pubsub_SubscribeOnceEach(p, topic, handler) ==
    pubsub_subscribe(p, topic, handler, TRUE, TRUE)

\* Variant: a missing topic is created and closed.
pubsub_Unsubscribe_tombstone(p, topic) ==
    LET p1 == IF topic \in DOMAIN p THEN p ELSE p @@ (topic :> newTopic(topic))
        r  == topic_unsubscribe(p1[topic])
    IN  [topics |-> [p1 EXCEPT ![topic] = r.t], calls |-> <<>>, ret |-> r.err]

pubsub_Unsubscribe(p, topic) ==
    IF topic \notin DOMAIN p
    THEN [topics |-> p, calls |-> <<>>, ret |-> "nil"]
    ELSE LET r == topic_unsubscribe(p[topic])
         IN  [topics |-> [p EXCEPT ![topic] = r.t], calls |-> <<>>, ret |-> r.err]

pubsub_CloseTopic(p, topic) ==
    IF topic \notin DOMAIN p
    THEN [topics |-> p, calls |-> <<>>, ret |-> "nil"]
    ELSE LET r == topic_close(p[topic])
         IN  [topics |-> [p EXCEPT ![topic] = r.t], calls |-> <<>>, ret |-> r.err]

\* Variant: publishing to a missing topic creates it.
pubsub_publish_creates(p, topic, args, try) ==
    LET p1 == IF topic \in DOMAIN p THEN p ELSE p @@ (topic :> newTopic(topic))
        r  == topic_publish(p1[topic], args, try)
    IN  [topics |-> [p1 EXCEPT ![topic] = r.t], calls |-> r.calls, ret |-> r.ret]

pubsub_publish(p, topic, args, try) ==
    IF topic \notin DOMAIN p
    THEN [topics |-> p, calls |-> <<>>, ret |-> "nil"]
    ELSE LET r == topic_publish(p[topic], args, try)
         IN  [topics |-> [p EXCEPT ![topic] = r.t], calls |-> r.calls, ret |-> r.ret]

pubsub_Publish(p, topic, args) == pubsub_publish(p, topic, args, FALSE)

pubsub_TryPublish(p, topic, args) == pubsub_publish(p, topic, args, TRUE)

\* The iteration orders a range over the map can take: Go leaves the order
\* of a map range unspecified.
RangeOrders(p) ==
    { o \in [1 .. Cardinality(DOMAIN p) -> DOMAIN p] :
        \A i, j \in DOMAIN o : i # j => o[i] # o[j] }

\* "for _, t := range p.topics": order is the iteration order taken, i the
\* position reached; the first non-nil error ends the sweep.
RECURSIVE unsubscribeEach(_, _, _)
unsubscribeEach(p, order, i) ==
    IF i > Len(order)
    THEN [topics |-> p, calls |-> <<>>, ret |-> "nil"]
    ELSE LET r == topic_unsubscribe(p[order[i]])
             p1 == [p EXCEPT ![order[i]] = r.t]
         IN  IF r.err # "nil"
             THEN [topics |-> p1, calls |-> <<>>, ret |-> r.err]
             ELSE unsubscribeEach(p1, order, i + 1)

pubsub_UnsubscribeAll(p, order) == unsubscribeEach(p, order, 1)

RECURSIVE closeEach(_, _, _)
closeEach(p, order, i) ==
    IF i > Len(order)
    THEN [topics |-> p, calls |-> <<>>, ret |-> "nil"]
    ELSE LET r == topic_close(p[order[i]])
             p1 == [p EXCEPT ![order[i]] = r.t]
         IN  IF r.err # "nil"
             THEN [topics |-> p1, calls |-> <<>>, ret |-> r.err]
             ELSE closeEach(p1, order, i + 1)

\* Variant: the sweep returns after the first topic.
pubsub_Shutdown_firstOnly(p, order) ==
    IF Len(order) = 0
    THEN [topics |-> p, calls |-> <<>>, ret |-> "nil"]
    ELSE LET r == topic_close(p[order[1]])
         IN  [topics |-> [p EXCEPT ![order[1]] = r.t], calls |-> <<>>, ret |-> r.err]

pubsub_Shutdown(p, order) == closeEach(p, order, 1)

----------------------------------------------------------------------------
(* Observation of a call *)

SubscribeOps == {"Subscribe", "SubscribeOnce", "SubscribeOnceEach"}
PublishOps   == {"Publish", "TryPublish"}
CloseOps     == {"Unsubscribe", "CloseTopic"}
SweepOps     == {"UnsubscribeAll", "Shutdown"}

\* The branch the call takes on the named topic.
Path(p, topic) ==
    IF topic \notin DOMAIN p THEN "absent"
    ELSE IF p[topic].closed THEN "closed" ELSE "open"

RECURSIVE SumLen(_, _)
SumLen(p, names) ==
    IF names = {} THEN 0
    ELSE LET n == CHOOSE x \in names : TRUE
         IN  Len(p[n].handlers) + SumLen(p, names \ {n})

TotalHandlers(p) == SumLen(p, DOMAIN p)

Call(op, topic, args, path) ==
    [op |-> op, topic |-> topic, args |-> args, path |-> path]

----------------------------------------------------------------------------
(* Concurrent callers *)

Procs == {1, 2}

\* Bound on the number of calls each caller makes.
MaxCalls == 2

\* The calls the concurrent callers choose from, all on one topic name.
RaceTopics == {"A"}

RaceHandlers == {"h1", "h2"}

RaceCalls ==
    [op : SubscribeOps, topic : RaceTopics, handler : RaceHandlers, args : {<<>>}]
    \cup
    [op : CloseOps, topic : RaceTopics, handler : {""}, args : {<<>>}]
    \cup
    [op : PublishOps, topic : RaceTopics, handler : {""}, args : {<<"x">>}]

NoCall == [op |-> "", topic |-> "", handler |-> "", args |-> <<>>]

\* A caller between calls: t is its topic pointer (0 is nil), hs the slice
\* its range loop iterates over, i the position in it, done the calls it
\* has completed.
IdleProc ==
    [pc |-> "idle", call |-> NoCall, t |-> 0, hs |-> <<>>, i |-> 0, done |-> <<>>]

\* The call returns (or a panic unwinds it) to the caller.
Return(pr) ==
    [pr EXCEPT !.pc = "idle", !.call = NoCall, !.t = 0, !.hs = <<>>, !.i = 0,
               !.done = Append(pr.done, pr.call)]


Init ==
    /\ topics = New
    /\ last = Call("New", "", <<>>, "")
    /\ calls = <<>>
    /\ ret = "nil"
    /\ tornDown = {}
    /\ swept = {}
    /\ reg = New
    /\ heap = <<>>
    /\ procs = [p \in Procs |-> IdleProc]

\* Facts about earlier calls that the registry does not keep: tornDown are
\* the topics that had handlers when an Unsubscribe or CloseTopic closed them,
\* swept the topics that were in the map at the last UnsubscribeAll/Shutdown.
AfterClose(topic) ==
    /\ tornDown' = IF /\ Path(topics, topic) = "open"
                      /\ topics[topic].handlers # <<>>
                   THEN tornDown \cup {topic} ELSE tornDown
    /\ UNCHANGED <<swept, raceVars>>

Subscribe ==
    \E topic \in TopicNames, handler \in Handlers :
        LET r == pubsub_Subscribe(topics, topic, handler)
        IN  /\ Path(topics, topic) = "closed" \/ TotalHandlers(topics) < MaxHandlers
            /\ topics' = r.topics
            /\ calls' = r.calls
            /\ ret' = r.ret
            /\ last' = Call("Subscribe", topic, <<>>, Path(topics, topic))
            /\ UNCHANGED <<tornDown, swept, raceVars>>

SubscribeOnce ==
    \E topic \in TopicNames, handler \in Handlers :
        LET r == pubsub_SubscribeOnce(topics, topic, handler)
        IN  /\ Path(topics, topic) = "closed" \/ TotalHandlers(topics) < MaxHandlers
            /\ topics' = r.topics
            /\ calls' = r.calls
            /\ ret' = r.ret
            /\ last' = Call("SubscribeOnce", topic, <<>>, Path(topics, topic))
            /\ UNCHANGED <<tornDown, swept, raceVars>>

SubscribeOnceEach ==
    \E topic \in TopicNames, handler \in Handlers :
        LET r == pubsub_SubscribeOnceEach(topics, topic, handler)
        IN  /\ Path(topics, topic) = "closed" \/ TotalHandlers(topics) < MaxHandlers
            /\ topics' = r.topics
            /\ calls' = r.calls
            /\ ret' = r.ret
            /\ last' = Call("SubscribeOnceEach", topic, <<>>, Path(topics, topic))
            /\ UNCHANGED <<tornDown, swept, raceVars>>

Unsubscribe ==
    \E topic \in TopicNames :
        LET r == pubsub_Unsubscribe(topics, topic)
        IN  /\ topics' = r.topics
            /\ calls' = r.calls
            /\ ret' = r.ret
            /\ last' = Call("Unsubscribe", topic, <<>>, Path(topics, topic))
            /\ AfterClose(topic)

UnsubscribeAll ==
    \E order \in RangeOrders(topics) :
        LET r == pubsub_UnsubscribeAll(topics, order)
        IN  /\ topics' = r.topics
            /\ calls' = r.calls
            /\ ret' = r.ret
            /\ last' = Call("UnsubscribeAll", "", <<>>, "all")
            /\ swept' = DOMAIN topics
            /\ UNCHANGED <<tornDown, raceVars>>

Publish ==
    \E topic \in TopicNames, args \in ArgLists :
        LET r == pubsub_Publish(topics, topic, args)
        IN  /\ topics' = r.topics
            /\ calls' = r.calls
            /\ ret' = r.ret
            /\ last' = Call("Publish", topic, args, Path(topics, topic))
            /\ UNCHANGED <<tornDown, swept, raceVars>>

TryPublish ==
    \E topic \in TopicNames, args \in ArgLists :
        LET r == pubsub_TryPublish(topics, topic, args)
        IN  /\ topics' = r.topics
            /\ calls' = r.calls
            /\ ret' = r.ret
            /\ last' = Call("TryPublish", topic, args, Path(topics, topic))
            /\ UNCHANGED <<tornDown, swept, raceVars>>

CloseTopic ==
    \E topic \in TopicNames :
        LET r == pubsub_CloseTopic(topics, topic)
        IN  /\ topics' = r.topics
            /\ calls' = r.calls
            /\ ret' = r.ret
            /\ last' = Call("CloseTopic", topic, <<>>, Path(topics, topic))
            /\ AfterClose(topic)

Shutdown ==
    \E order \in RangeOrders(topics) :
        LET r == pubsub_Shutdown(topics, order)
        IN  /\ topics' = r.topics
            /\ calls' = r.calls
            /\ ret' = r.ret
            /\ last' = Call("Shutdown", "", <<>>, "all")
            /\ swept' = DOMAIN topics
            /\ UNCHANGED <<tornDown, raceVars>>

Next ==
    \/ Subscribe
    \/ SubscribeOnce
    \/ SubscribeOnceEach
    \/ Unsubscribe
    \/ UnsubscribeAll
    \/ Publish
    \/ TryPublish
    \/ CloseTopic
    \/ Shutdown

Spec == Init /\ [][Next]_vars

----------------------------------------------------------------------------
(* Steps of the concurrent callers.  The statements of a topic method run   *)
(* as one step, and so does one iteration of the publish loop; the code has *)
(* no lock, so steps of different callers interleave freely.                *)

Begin(p) ==
    /\ procs[p].pc = "idle"
    /\ Len(procs[p].done) < MaxCalls
    /\ \E c \in RaceCalls :
          procs' = [procs EXCEPT ![p].pc = "lookup", ![p].call = c]
    /\ UNCHANGED <<reg, heap, seqVars>>

\* t, ok := p.topics[topic]
Lookup(p) ==
    LET pr == procs[p]
    IN  /\ pr.pc = "lookup"
        /\ procs' =
              IF pr.call.topic \in DOMAIN reg
              THEN [procs EXCEPT ![p].pc = "topic", ![p].t = reg[pr.call.topic]]
              ELSE IF pr.call.op \in SubscribeOps
                   THEN [procs EXCEPT ![p].pc = "create"]
                   ELSE [procs EXCEPT ![p] = Return(pr)]
        /\ UNCHANGED <<reg, heap, seqVars>>

\* t = newTopic(topic)
Create(p) ==
    LET pr == procs[p]
    IN  /\ pr.pc = "create"
        /\ heap' = Append(heap, newTopic(pr.call.topic))
        /\ procs' = [procs EXCEPT ![p].pc = "store", ![p].t = Len(heap) + 1]
        /\ UNCHANGED <<reg, seqVars>>

\* p.topics[topic] = t
Store(p) ==
    LET pr == procs[p]
    IN  /\ pr.pc = "store"
        /\ reg' = [n \in DOMAIN reg \cup {pr.call.topic} |->
                     IF n = pr.call.topic THEN pr.t ELSE reg[n]]
        /\ procs' = [procs EXCEPT ![p].pc = "topic"]
        /\ UNCHANGED <<heap, seqVars>>

\* A map write that overlaps another caller's map access is a data race;
\* the Go runtime may detect it and end the program with a fatal error.
MapFault(p) ==
    /\ procs[p].pc = "store"
    /\ \E q \in Procs \ {p} : procs[q].pc \in {"lookup", "store"}
    /\ procs' = [q \in Procs |-> [procs[q] EXCEPT !.pc = "fatal"]]
    /\ UNCHANGED <<reg, heap, seqVars>>

\* return t.subscribe(handler, once, onceEach)
TopicSubscribe(p) ==
    LET pr == procs[p]
        m  == [once |-> pr.call.op \in {"SubscribeOnce", "SubscribeOnceEach"},
               onceEach |-> pr.call.op = "SubscribeOnceEach"]
    IN  /\ pr.pc = "topic"
        /\ pr.call.op \in SubscribeOps
        /\ heap' = [heap EXCEPT ![pr.t] =
                      topic_subscribe(heap[pr.t], pr.call.handler,
                                      m.once, m.onceEach).t]
        /\ procs' = [procs EXCEPT ![p] = Return(pr)]
        /\ UNCHANGED <<reg, seqVars>>

\* return t.unsubscribe() / return t.close()
TopicClose(p) ==
    LET pr == procs[p]
    IN  /\ pr.pc = "topic"
        /\ pr.call.op \in CloseOps
        /\ heap' = [heap EXCEPT ![pr.t] =
                      IF pr.call.op = "Unsubscribe"
                      THEN topic_unsubscribe(heap[pr.t]).t
                      ELSE topic_close(heap[pr.t]).t]
        /\ procs' = [procs EXCEPT ![p] = Return(pr)]
        /\ UNCHANGED <<reg, seqVars>>

\* t.publish up to the start of the loop: the closed test, and the range
\* expression t.handlers evaluated once.
PublishStart(p) ==
    LET pr == procs[p]
    IN  /\ pr.pc = "topic"
        /\ pr.call.op \in PublishOps
        /\ procs' =
              IF heap[pr.t].closed \/ heap[pr.t].handlers = <<>>
              THEN [procs EXCEPT ![p] = Return(pr)]
              ELSE [procs EXCEPT ![p].pc = "loop",
                                 ![p].hs = heap[pr.t].handlers,
                                 ![p].i = 1]
        /\ UNCHANGED <<reg, heap, seqVars>>

\* One iteration of the range loop: the handler is invoked, then the once
\* and onceEach tests run on the topic as it is now.
PublishIterate(p) ==
    LET pr == procs[p]
        r  == publishLoop(heap[pr.t], <<pr.hs[pr.i]>>, 1, pr.call.args, <<>>)
    IN  /\ pr.pc = "loop"
        /\ heap' = [heap EXCEPT ![pr.t] = r.t]
        /\ procs' =
              IF r.ret = "panic" \/ pr.i = Len(pr.hs)
              THEN [procs EXCEPT ![p] = Return(pr)]
              ELSE [procs EXCEPT ![p].i = pr.i + 1]
        /\ UNCHANGED <<reg, seqVars>>

NextRace ==
    \E p \in Procs :
        \/ Begin(p)
        \/ Lookup(p)
        \/ Create(p)
        \/ Store(p)
        \/ MapFault(p)
        \/ TopicSubscribe(p)
        \/ TopicClose(p)
        \/ PublishStart(p)
        \/ PublishIterate(p)

SpecRace == Init /\ [][NextRace]_vars

----------------------------------------------------------------------------
(* Properties *)

\* What a publish call delivers when every entry of hs is invoked once, in
\* order, with args.
EachOnce(hs, args) == [i \in 1 .. Len(hs) |-> [h |-> hs[i], args |-> args]]

NoneFails(hs) == \A i \in 1 .. Len(hs) : ~Panics(hs[i])

IsOpen(T) == Path(topics, T) = "open"

\* C1: once Unsubscribe(T) or CloseTopic(T) has returned on a topic T that
\* had handlers, T stays closed with no handlers in every later state,
\* whatever Subscribe, SubscribeOnce or SubscribeOnceEach calls are made on
\* T, and every Publish(T) or TryPublish(T) made then invokes no handler,
\* returns success and changes nothing.
C1_ClosedTopicStaysSilent ==
    /\ \A T \in tornDown :
          /\ T \in DOMAIN topics
          /\ topics[T].closed
          /\ topics[T].handlers = <<>>
          /\ \A args \in ArgLists, try \in BOOLEAN :
                pubsub_publish(topics, T, args, try) =
                   [topics |-> topics, calls |-> <<>>, ret |-> "nil"]
    /\ (last.op \in PublishOps /\ last.topic \in tornDown)
          => (calls = <<>> /\ ret = "nil")

\* C1 witness: a subscribing call has just been made on a topic that an
\* Unsubscribe or CloseTopic had closed while it had handlers.
C1_Witness ==
    /\ last.op \in SubscribeOps
    /\ last.path = "closed"
    /\ last.topic \in tornDown

\* C2: a Publish or TryPublish on an open topic in Persistent mode (neither
\* flag set, as after subscriptions made with Subscribe only), none of whose
\* handlers fails, invokes every entry of the handler collection exactly
\* once, in order, with exactly the arguments passed, and returns success;
\* a callback subscribed k times is k entries and is invoked k times.
C2_PersistentDeliversEachEntryOnce ==
    [][ \A T \in TopicNames :
          ( /\ last'.op \in PublishOps
            /\ last'.topic = T
            /\ IsOpen(T)
            /\ ~topics[T].once
            /\ ~topics[T].onceEach
            /\ NoneFails(topics[T].handlers) )
          => ( /\ calls' = EachOnce(topics[T].handlers, last'.args)
               /\ ret' = "nil" )
      ]_vars

\* C2 witness: a publish on a Persistent topic that holds the same callback
\* twice and invoked it twice with the published arguments.
C2_Witness ==
    /\ last.op \in PublishOps
    /\ last.path = "open"
    /\ ~topics[last.topic].once
    /\ Len(topics[last.topic].handlers) = 2
    /\ topics[last.topic].handlers[1] = topics[last.topic].handlers[2]
    /\ calls = EachOnce(topics[last.topic].handlers, last.args)
    /\ last.args = <<"y", "x">>

\* C3: handlers are invoked in subscription order.  A subscribing call on an
\* open (or new) topic puts its handler behind all the handlers registered
\* before it, and a publish call invokes the handlers from the front of the
\* collection, one after another: the i-th invocation of a call is the i-th
\* subscribed handler.
C3_SubscriptionOrder ==
    [][ \A T \in TopicNames :
          /\ ( last'.op \in SubscribeOps /\ last'.topic = T /\ ~Path(topics, T) = "closed" )
             => \E h \in Handlers :
                   topics'[T].handlers =
                      Append(IF IsOpen(T) THEN topics[T].handlers ELSE <<>>, h)
          /\ ( last'.op \in PublishOps /\ last'.topic = T /\ IsOpen(T) )
             => /\ Len(calls') <= Len(topics[T].handlers)
                /\ \A i \in 1 .. Len(calls') : calls'[i].h = topics[T].handlers[i]
                /\ ret' = "nil" => Len(calls') = Len(topics[T].handlers)
      ]_vars

\* C3 witness: a publish call that invoked two different handlers, the one
\* subscribed first before the one subscribed second.
C3_Witness ==
    /\ last.op \in PublishOps
    /\ last.path = "open"
    /\ ~topics[last.topic].once
    /\ topics[last.topic].handlers = <<"h2", "h1">>
    /\ Len(calls) = 2
    /\ calls[1].h = "h2"
    /\ calls[2].h = "h1"

\* C4: on a topic name with no entry in the registry (a name never
\* subscribed to), Publish, TryPublish, Unsubscribe and CloseTopic return
\* success, invoke no handler and leave the whole registry as it was: no
\* entry is created and no other topic changes.
C4_AbsentTopicIsNoOp ==
    [][ ( /\ last'.op \in PublishOps \cup CloseOps
          /\ last'.topic \notin DOMAIN topics )
        => ( /\ topics' = topics
             /\ calls' = <<>>
             /\ ret' = "nil" )
      ]_vars

\* C4 witness: an Unsubscribe of a name without an entry, made while another
\* topic is open with handlers.
C4_Witness ==
    /\ last.op = "Unsubscribe"
    /\ last.path = "absent"
    /\ last.topic \notin DOMAIN topics
    /\ \E T \in DOMAIN topics : ~topics[T].closed /\ Len(topics[T].handlers) >= 2

\* The case of C5: T is open with n >= 1 handlers, none of which fails, and
\* the last subscription on T was SubscribeOnce.
OnceTotalCase(T) ==
    /\ IsOpen(T)
    /\ Len(topics[T].handlers) >= 1
    /\ NoneFails(topics[T].handlers)
    /\ \/ (last.op = "SubscribeOnce" /\ last.topic = T)
       \/ (topics[T].once /\ ~topics[T].onceEach)

\* What two publish calls in a row on T (each a Publish or a TryPublish) do
\* to a topic whose handlers are all cleared by the first one: the first
\* invokes every handler once, in order, and leaves the collection empty and
\* the topic open; the second invokes none.
ClearedByFirstPublish(T) ==
    \A a1, a2 \in ArgLists, try1, try2 \in BOOLEAN :
        LET r1 == pubsub_publish(topics, T, a1, try1)
            r2 == pubsub_publish(r1.topics, T, a2, try2)
        IN  /\ r1.calls = EachOnce(topics[T].handlers, a1)
            /\ r1.ret = "nil"
            /\ r1.topics[T].handlers = <<>>
            /\ ~r1.topics[T].closed
            /\ r2.calls = <<>>
            /\ r2.ret = "nil"

\* C5: when n >= 1 handlers (none failing) are registered on T and the last
\* subscription was SubscribeOnce, the first publish call on T invokes all n
\* handlers once each, T's handler collection is empty after it, and a
\* second publish call on T invokes no handler.
C5_OnceClearsAllAfterFirstPublish ==
    /\ \A T \in TopicNames : OnceTotalCase(T) => ClearedByFirstPublish(T)
    /\ ( /\ last.op \in PublishOps
         /\ last.path = "open"
         /\ ret = "nil"
         /\ topics[last.topic].once
         /\ ~topics[last.topic].onceEach )
       => topics[last.topic].handlers = <<>>

\* C5 witness: the state after the first publish on a topic that held two
\* handlers, the last one subscribed with SubscribeOnce: both were invoked
\* and the collection is empty.
C5_Witness ==
    /\ last.op \in PublishOps
    /\ last.path = "open"
    /\ topics[last.topic].once
    /\ ~topics[last.topic].onceEach
    /\ Len(calls) = 2
    /\ ret = "nil"
    /\ topics[last.topic].handlers = <<>>

\* The case of C6: T is open, its handlers (at least two, none failing) end
\* with a SubscribeOnceEach subscription.
OnceEachCase(T) ==
    /\ IsOpen(T)
    /\ Len(topics[T].handlers) >= 2
    /\ NoneFails(topics[T].handlers)
    /\ \/ (last.op = "SubscribeOnceEach" /\ last.topic = T)
       \/ topics[T].onceEach

\* C6: with H1 and then H2 registered on T with SubscribeOnceEach (neither
\* failing), the first publish call on T invokes H1 and H2 exactly once
\* each, in that order, and a second publish call on T invokes neither.
C6_OnceEachFiresEachOnce ==
    /\ \A T \in TopicNames : OnceEachCase(T) => ClearedByFirstPublish(T)
    /\ ( /\ last.op \in PublishOps
         /\ last.path = "open"
         /\ ret = "nil"
         /\ topics[last.topic].onceEach )
       => topics[last.topic].handlers = <<>>

\* C6 witness: the state after the first publish on a topic on which h1 and
\* then h2 were registered with SubscribeOnceEach: both were invoked once.
C6_Witness ==
    /\ last.op \in PublishOps
    /\ last.path = "open"
    /\ topics[last.topic].onceEach
    /\ calls = EachOnce(<<"h1", "h2">>, last.args)
    /\ ret = "nil"
    /\ topics[last.topic].handlers = <<>>

\* The three-handler case of C7 and C8: only the second handler fails.
SecondOfThreeFails(hs) ==
    /\ Len(hs) = 3
    /\ ~Panics(hs[1])
    /\ Panics(hs[2])
    /\ ~Panics(hs[3])

\* C7: Publish on a topic with three handlers of which the second fails
\* discards the failure, invokes all three handlers and returns success.
C7_PublishContinuesPastFailure ==
    [][ \A T \in TopicNames :
          ( /\ last'.op = "Publish"
            /\ last'.topic = T
            /\ IsOpen(T)
            /\ SecondOfThreeFails(topics[T].handlers) )
          => ( /\ calls' = EachOnce(topics[T].handlers, last'.args)
               /\ ret' = "nil" )
      ]_vars

\* C8: TryPublish on a topic with three handlers of which the second fails
\* invokes handlers 1 and 2, does not invoke handler 3, and returns handler
\* 2's error to its caller as the result of the call.
C8_TryPublishReturnsFirstError ==
    [][ \A T \in TopicNames :
          ( /\ last'.op = "TryPublish"
            /\ last'.topic = T
            /\ IsOpen(T)
            /\ SecondOfThreeFails(topics[T].handlers) )
          => ( /\ calls' = EachOnce(SubSeq(topics[T].handlers, 1, 2), last'.args)
               /\ ret' = "error" )
      ]_vars

\* C9: after Shutdown or UnsubscribeAll has returned, every topic that was
\* in the registry when it was called (all of them, whatever their number
\* and modes) is closed with an empty handler collection, the call returned
\* success, and every later publish to one of those topics invokes no
\* handler.
C9_SweepClosesEveryTopic ==
    /\ last.op \in SweepOps
          => (ret = "nil" /\ calls = <<>> /\ swept = DOMAIN topics)
    /\ \A T \in swept :
          /\ T \in DOMAIN topics
          /\ topics[T].closed
          /\ topics[T].handlers = <<>>
    /\ (last.op \in PublishOps /\ last.topic \in swept)
          => (calls = <<>> /\ ret = "nil")

\* C9 witness: a publish to a topic after a Shutdown/UnsubscribeAll that
\* found two topics, one in a one-shot mode and one Persistent, neither
\* closed with handlers by an earlier Unsubscribe or CloseTopic.
C9_Witness ==
    /\ last.op \in PublishOps
    /\ last.topic \in swept
    /\ swept = TopicNames
    /\ tornDown = {}
    /\ \E T \in swept : topics[T].once
    /\ \E T \in swept : ~topics[T].once

\* C10: Unsubscribe and CloseTopic are idempotent.  On a closed topic either
\* returns success and leaves the whole registry unchanged; from any state,
\* applying either a second time (after itself or after the other) returns
\* success and gives the state the first application gave.
C10_CloseIdempotent ==
    \A T \in TopicNames :
        LET u1 == pubsub_Unsubscribe(topics, T)
            c1 == pubsub_CloseTopic(topics, T)
        IN  /\ Path(topics, T) = "closed"
               => /\ u1 = [topics |-> topics, calls |-> <<>>, ret |-> "nil"]
                  /\ c1 = [topics |-> topics, calls |-> <<>>, ret |-> "nil"]
            /\ \A r1 \in {u1, c1} :
                  /\ r1.ret = "nil"
                  /\ pubsub_Unsubscribe(r1.topics, T) = r1
                  /\ pubsub_CloseTopic(r1.topics, T) = r1

\* C10 witness: an Unsubscribe or CloseTopic was called on a topic that an
\* earlier call had closed while it had handlers.
C10_Witness ==
    /\ last.op \in CloseOps
    /\ last.path = "closed"
    /\ last.topic \in tornDown
    /\ ret = "nil"

\* C11: in every reachable state, a topic whose closed flag is true has an
\* empty handler collection.
C11_ClosedImpliesNoHandlers ==
    \A T \in DOMAIN topics : topics[T].closed => topics[T].handlers = <<>>

\* C11 witness: a subscribing call was made on a topic that a sweep had
\* closed, while the other topic is still open with handlers.
C11_Witness ==
    /\ last.op \in SubscribeOps
    /\ last.path = "closed"
    /\ last.topic \in swept
    /\ \E T \in DOMAIN topics : ~topics[T].closed /\ topics[T].handlers # <<>>

ModeOf(op) ==
    [once |-> op \in {"SubscribeOnce", "SubscribeOnceEach"},
     onceEach |-> op = "SubscribeOnceEach"]

SubscribeAs(op, p, topic, handler) ==
    CASE op = "Subscribe"         -> pubsub_Subscribe(p, topic, handler)
      [] op = "SubscribeOnce"     -> pubsub_SubscribeOnce(p, topic, handler)
      [] op = "SubscribeOnceEach" -> pubsub_SubscribeOnceEach(p, topic, handler)

\* What the next publish does on topic T of registry p when the mode `op`
\* asked for applies to all of T's handlers: every handler is invoked, and
\* they all stay (Subscribe) or are all removed (one-shot modes).
ModeAppliesToAll(p, T, op) ==
    \A args \in ArgLists, try \in BOOLEAN :
        LET r == pubsub_publish(p, T, args, try)
        IN  /\ op = "Subscribe" => r.topics = p
            /\ NoneFails(p[T].handlers)
                  => /\ r.calls = EachOnce(p[T].handlers, args)
                     /\ r.topics[T].handlers =
                           IF op = "Subscribe" THEN p[T].handlers ELSE <<>>

C14_OnceTotalPublishKeepsTopicOpen ==
    ( /\ last.op \in PublishOps
      /\ last.path = "open"
      /\ ret = "nil"
      /\ topics[last.topic].once
      /\ ~topics[last.topic].onceEach )
    => LET T == last.topic
       IN  /\ topics[T].handlers = <<>>
           /\ ~topics[T].closed
           /\ \A op \in SubscribeOps, h \in Handlers,
                 args \in ArgLists, try \in BOOLEAN :
                 LET r1 == SubscribeAs(op, topics, T, h)
                     r2 == pubsub_publish(r1.topics, T, args, try)
                 IN  /\ r1.topics[T].handlers = <<h>>
                     /\ r2.calls = EachOnce(<<h>>, args)

\* C14 witness: the state after a publish that invoked the three handlers
\* of a OnceTotal topic.
C14_Witness ==
    /\ last.op \in PublishOps
    /\ last.path = "open"
    /\ ret = "nil"
    /\ topics[last.topic].once
    /\ ~topics[last.topic].onceEach
    /\ Len(calls) = 3

\* The topic as it is during a publish with arguments args, right after the
\* k-th handler of the collection has been invoked and its loop iteration
\* has ended: the range loop run over the first k entries.
AfterKth(t, k, args) ==
    publishLoop(t, SubSeq(t.handlers, 1, k), 1, args, <<>>).t

\* C15: during a publish on an open OnceEach topic with handlers h1..hn
\* (none failing), right after hk has been invoked and before h(k+1) is,
\* the handler collection is exactly h(k+1)..hn.
C15_OnceEachRemovesOneAtATime ==
    \A T \in DOMAIN topics :
        ( /\ ~topics[T].closed
          /\ topics[T].onceEach
          /\ NoneFails(topics[T].handlers) )
        => \A k \in 1 .. Len(topics[T].handlers), args \in ArgLists :
              AfterKth(topics[T], k, args).handlers =
                 SubSeq(topics[T].handlers, k + 1, Len(topics[T].handlers))

\* C18: frame of publish.  From every reachable state, Publish(T, args) and
\* TryPublish(T, args) leave the set of registry entries and every topic
\* other than T as they were, leave T's name, flags and closed state as they
\* were, and when T is an open Persistent topic change nothing at all.
C18_PublishFrame ==
    \A T \in TopicNames, args \in ArgLists, try \in BOOLEAN :
        LET r == pubsub_publish(topics, T, args, try)
        IN  /\ DOMAIN r.topics = DOMAIN topics
            /\ \A U \in DOMAIN topics \ {T} : r.topics[U] = topics[U]
            /\ T \in DOMAIN topics
                  => r.topics[T] = [topics[T] EXCEPT !.handlers = r.topics[T].handlers]
            /\ ( IsOpen(T) /\ ~topics[T].once /\ ~topics[T].onceEach )
                  => r.topics = topics

\* C18 witness: a publish was made on an open Persistent topic with handlers
\* while the other topic was open in a one-shot mode with a handler.
C18_Witness ==
    /\ last.op \in PublishOps
    /\ last.path = "open"
    /\ ~topics[last.topic].once
    /\ Len(calls) >= 1
    /\ \E U \in DOMAIN topics \ {last.topic} :
          ~topics[U].closed /\ topics[U].once /\ topics[U].handlers # <<>>

Twin(p) == [T \in DOMAIN p |-> [p[T] EXCEPT !.onceEach = FALSE]]

\* r is the outcome of a call in this run, rt of the matching call in the
\* second run: same invocations, same ending, matching registries.
SameAsTwin(r, rt) ==
    /\ rt.topics = Twin(r.topics)
    /\ rt.calls = r.calls
    /\ rt.ret = r.ret

\* C20: SubscribeOnceEach is observationally the same as SubscribeOnce.
\* Both runs start from the empty registry; from every reachable state of
\* this run and the matching state of the second run, every call (with
\* SubscribeOnce in the second run for SubscribeOnceEach in this one) makes
\* the same handler invocations, ends the same way and leads to matching
\* states again, so handler collections and closed flags agree after every
\* call of any sequence.
C20_OnceEachSameAsOnce ==
    LET q == Twin(topics)
    IN  /\ Twin(New) = New
        /\ \A T \in TopicNames, h \in Handlers :
              /\ SameAsTwin(pubsub_SubscribeOnceEach(topics, T, h),
                            pubsub_SubscribeOnce(q, T, h))
              /\ SameAsTwin(pubsub_SubscribeOnce(topics, T, h),
                            pubsub_SubscribeOnce(q, T, h))
              /\ SameAsTwin(pubsub_Subscribe(topics, T, h),
                            pubsub_Subscribe(q, T, h))
        /\ \A T \in TopicNames, args \in ArgLists :
              /\ SameAsTwin(pubsub_Publish(topics, T, args),
                            pubsub_Publish(q, T, args))
              /\ SameAsTwin(pubsub_TryPublish(topics, T, args),
                            pubsub_TryPublish(q, T, args))
        /\ \A T \in TopicNames :
              /\ SameAsTwin(pubsub_Unsubscribe(topics, T), pubsub_Unsubscribe(q, T))
              /\ SameAsTwin(pubsub_CloseTopic(topics, T), pubsub_CloseTopic(q, T))
        /\ \A order \in RangeOrders(topics) :
              /\ SameAsTwin(pubsub_UnsubscribeAll(topics, order),
                            pubsub_UnsubscribeAll(q, order))
              /\ SameAsTwin(pubsub_Shutdown(topics, order),
                            pubsub_Shutdown(q, order))

\* C20 witness: a publish on a topic last subscribed with SubscribeOnceEach
\* invoked its three handlers and left the collection empty.
C20_Witness ==
    /\ last.op \in PublishOps
    /\ last.path = "open"
    /\ topics[last.topic].onceEach
    /\ Len(calls) = 3
    /\ ret = "nil"
    /\ topics[last.topic].handlers = <<>>

\* The callers have made only subscribing calls on T, all completed.
OnlySubscribed(T) ==
    \A p \in Procs :
        /\ procs[p].pc = "idle"
        /\ \A k \in 1 .. Len(procs[p].done) :
              procs[p].done[k].op \in SubscribeOps /\ procs[p].done[k].topic = T

RECURSIVE CallsDone(_)
CallsDone(ps) ==
    IF ps = {} THEN 0
    ELSE LET p == CHOOSE x \in ps : TRUE
         IN  Len(procs[p].done) + CallsDone(ps \ {p})

\* C16: topic creation is exactly-once under a race.  Whenever the callers
\* have completed only subscribing calls on T, whatever the interleaving of
\* their steps, exactly one Topic was ever created and stored for T and
\* every subscribed handler is in the handler collection of the registry's
\* topic for T.
C16_TopicCreatedOnceUnderRace ==
    \A T \in RaceTopics :
        ( OnlySubscribed(T) /\ CallsDone(Procs) >= 1 )
        => /\ Cardinality({id \in 1 .. Len(heap) : heap[id].name = T}) = 1
           /\ T \in DOMAIN reg
           /\ Len(heap[reg[T]].handlers) = CallsDone(Procs)
           /\ \A p \in Procs : \A k \in 1 .. Len(procs[p].done) :
                 \E j \in 1 .. Len(heap[reg[T]].handlers) :
                     heap[reg[T]].handlers[j] = procs[p].done[k].handler

\* C17: handler invocation never overlaps a structural change of the same
\* topic.  While a caller's publish is between its first and its last
\* handler invocation, no step changes the handler collection or the closed
\* flag of the topic it publishes on, and no handler is invoked when the
\* topic's closed flag is already true.
C17_NoStructuralChangeDuringPublish ==
    [][ \A p \in Procs :
          LET pr == procs[p]
          IN  /\ ( pr.pc = "loop" /\ pr.i > 1 )
                 => /\ heap'[pr.t].handlers = heap[pr.t].handlers
                    /\ heap'[pr.t].closed = heap[pr.t].closed
              /\ ( pr.pc = "loop" /\ procs'[p] # pr /\ procs'[p].pc # "fatal" )
                 => ~heap[pr.t].closed
      ]_vars

=============================================================================
